---- MODULE Spec2Model ----
(***************************************************************************)
(* Watch/rebuild engine of the `build` command of rna-cli                  *)
(* (src/commands/build/action.js, lines 515-609).                          *)
(*                                                                         *)
(* One step of the model is one macrotask of the JavaScript event loop     *)
(* together with the microtasks (promise reactions) it triggers: a watcher *)
(* callback, the expiry of the debounce timer, or the completion of a      *)
(* bundler build()/write().  Promise reactions run in registration order.  *)
(*                                                                         *)
(* SpecCommand models the part of the same action that precedes the        *)
(* initial builds (lines 264-458): the resolution of the arguments into    *)
(* entries (Project.resolve, src/unnamed/part_001 lines 668-691), the      *)
(* --link option and the loop that calls buildEntry() for every entry.     *)
(***************************************************************************)
EXTENDS Integers, Sequences, FiniteSets, TLC

VARIABLES
    phase,           \* position of the command action: "initial", "watching", "aborted"
    init,            \* per bundler: stage of the pipeline started by buildEntry
    files,           \* per bundler: bundle.files
    removed,         \* paths that do not exist on disk (realpathSync throws ENOENT)
    statuses,        \* the `statuses` WeakMap of the watch block
    collectedFiles,  \* the `collectedFiles` buffer
    timeout,         \* TRUE when the debounce timer is armed
    chain,           \* unfinished callbacks of the shared `promise` chain, oldest first
    waiters,         \* flushes suspended at `await promise`, in registration order
    errors,          \* bundles for which app.logger.error(err) has been called
    nEvents,         \* number of watcher callbacks so far
    log,             \* what the last step completed and scheduled
    workspaces,      \* project.workspaces: null, or the workspace names
    arguments,       \* options.arguments
    options,         \* options.output and options.link
    globbed,         \* the patterns handed to the glob expansion of Directory.resolve
    entries,         \* the `entries` list
    step,            \* position of the action: "resolve", "link", "process", "await", "thrown"
    index,           \* the loop variable i (1-based)
    bundlers,        \* the `bundlers` array: one record per buildEntry() call
    error,           \* the message of the error thrown by the action
    early,           \* a tracked path changed before project.watch() was called, or "none"
    setupArgs,       \* WebManifestBundler.setup: the `options` argument
    bundlerOptions,  \* WebManifestBundler: this.options
    setupStage,      \* WebManifestBundler.setup: "call", "super", "done", "thrown"
    setupError,      \* WebManifestBundler.setup: the option named by the thrown message
    cliMode,         \* CLI.start: what the parsed global options ask for
    commands,        \* CLI.start: the parsed commands
    cliPos,          \* CLI.start: the loop variable i (1-based)
    cliStage,        \* CLI.start/exec: "start", "callback", "returned", "thrown"
    profiles,        \* per command: calls of profiler.task() and of profile.end()
    actionOptions,   \* manifest command: the options of the invocation
    manifestRes,     \* manifest command: what manifestBundler.build() resolved with
    lintFiles,       \* Stylelint.lint: the `files` argument
    lintReport,      \* Stylelint.lint: the report stylelint.lint() resolved with
    lintResult,      \* Stylelint: this.result
    lintStage,       \* Stylelint.lint: "call", "stylelint", "returned"
    lintReturn,      \* Stylelint.lint: the value the call resolved with
    lintRuns         \* number of stylelint.lint(config) calls

watchVars == <<phase, init, files, removed, statuses, collectedFiles, timeout,
               chain, waiters, errors, nEvents, log, early>>

commandVars == <<workspaces, arguments, options, globbed, entries, step, index,
                 bundlers, error>>

manifestVars == <<setupArgs, bundlerOptions, setupStage, setupError>>

cliVars == <<cliMode, commands, cliPos, cliStage, profiles>>

actionVars == <<actionOptions, manifestRes>>

lintVars == <<lintFiles, lintReport, lintResult, lintStage, lintReturn, lintRuns>>

extraVars == <<actionVars, lintVars>>

otherVars == <<manifestVars, cliVars, extraVars>>

\* what the steps of the watch block leave alone
outsideVars == <<early, commandVars, otherVars>>

vars == <<watchVars, commandVars, otherVars>>

(***************************************************************************)
(* Bounds and the project under build.                                     *)
(***************************************************************************)
MaxEvents == 3

Bundles == {"A", "B"}

\* order of the `bundlers` array
BundlerOrder == <<"A", "B">>

\* paths reported by the watcher; "lu" is a symbolic link to "u"
Paths == {"a", "b", "u", "lu"}

\* files that may be deleted and re-created while watching
Removable == {"u"}

\* a realpathSync that does not follow symbolic links
TargetSame(p) == p

\* realpathSync: the physical path behind a path
Target(p) == IF p = "lu" THEN "u" ELSE p

\* dependency sets a successful build() of a bundler may leave in bundle.files
FileOptions(b) == IF b = "A" THEN {{"a"}, {"a", "u"}} ELSE {{"b"}, {"b", "u"}}

NoFiles == [present |-> FALSE, list |-> {}]

NoStatus == [running |-> FALSE, defined |-> FALSE, invalidate |-> <<>>]

EmptyLog == [done |-> <<>>, flushes |-> <<>>]

\* a callback chained on `promise`; built = its bundle.build() call has resolved
Cycle(b, inv) == [bundle |-> b, invalidate |-> inv, stage |-> "queued", built |-> FALSE]

InFlight(c) == c.stage \in {"build", "write", "hung"}

RemoveAt(s, i) == [k \in 1..(Len(s) - 1) |-> IF k < i THEN s[k] ELSE s[k + 1]]

(***************************************************************************)
(* The project of the build command: a root project, optionally a monorepo *)
(* with three workspaces, and two linked dependencies.                     *)
(***************************************************************************)
MaxArgs == 2

\* the values options.arguments is drawn from
ArgPatterns == {"pkg-a", "pkg-b", "pkg-c", "src/x.js", "none/*"}

WorkspaceNames == <<"pkg-a", "pkg-b", "pkg-c">>

\* project.workspaces: null when package.json has no `workspaces` field, otherwise
\* one Project per directory matched by the field (possibly none)
NotMonorepo == [monorepo |-> FALSE, names |-> <<>>]

WorkspaceOptions ==
    {NotMonorepo, [monorepo |-> TRUE, names |-> <<>>],
     [monorepo |-> TRUE, names |-> WorkspaceNames]}

NoFields ==
    [lib |-> FALSE, module |-> FALSE, main |-> FALSE, browser |-> FALSE,
     style |-> FALSE, dist |-> FALSE, html |-> FALSE]

\* entry.get('lib'), entry.get('module'), ... of the packages of the project
Fields(name) ==
    CASE name = "pkg-a" -> [NoFields EXCEPT !.lib = TRUE, !.module = TRUE, !.main = TRUE]
      [] name = "pkg-b" -> [NoFields EXCEPT !.lib = TRUE]
      [] name = "pkg-c" -> [NoFields EXCEPT !.main = TRUE]
      [] name = "root"  -> [NoFields EXCEPT !.module = TRUE]
      [] name = "dep-x" -> [NoFields EXCEPT !.lib = TRUE, !.module = TRUE, !.main = TRUE]
      [] name = "dep-y" -> [NoFields EXCEPT !.lib = TRUE, !.browser = TRUE]
      [] OTHER -> NoFields

ProjectEntry(n) == [kind |-> "project", name |-> n, linked |-> FALSE]

FileEntry(n) == [kind |-> "file", name |-> n, linked |-> FALSE]

DirectoryEntry(n) == [kind |-> "directory", name |-> n, linked |-> FALSE]

\* glob.sync(pattern): the project root holds the directory pkg-a and the file src/x.js
Glob(pattern) ==
    CASE pattern = "pkg-a"    -> <<DirectoryEntry("pkg-a")>>
      [] pattern = "src/x.js" -> <<FileEntry("src/x.js")>>
      [] OTHER -> <<>>

Contains(list, e) == \E k \in DOMAIN list : list[k] = e

\* Directory.resolve(patterns): every match once, in the order of the patterns
RECURSIVE DirectoryResolve(_, _)
DirectoryResolve(found, patterns) ==
    IF patterns = <<>> THEN found
    ELSE LET new == SelectSeq(Glob(Head(patterns)), LAMBDA e : ~Contains(found, e))
         IN  DirectoryResolve(found \o new, Tail(patterns))

\* a lookup that finds no workspace
MatchProjectNever(ws, pattern) == FALSE

\* workspaces.find((project) => project.get('name') === pattern)
MatchProject(ws, pattern) == Contains(ws.names, pattern)

\* Project.resolve(patterns): the resolved entries and the patterns left to the glob
ProjectResolve(ws, patterns) ==
    IF ~ws.monorepo
    THEN [files |-> DirectoryResolve(<<>>, patterns), globbed |-> patterns]
    ELSE LET names         == SelectSeq(patterns, LAMBDA p : MatchProject(ws, p))
             filesPatterns == SelectSeq(patterns, LAMBDA p : ~MatchProject(ws, p))
         IN  [files   |-> [k \in DOMAIN names |-> ProjectEntry(names[k])]
                              \o DirectoryResolve(<<>>, filesPatterns),
              globbed |-> filesPatterns]

\* isProjectInList(list, project)
IsProjectInList(list, e) ==
    \E k \in DOMAIN list : list[k].kind = "project" /\ list[k].name = e.name

\* project.getWorkspaceDependencies(entry): pkg-a depends on the workspace pkg-b
WorkspaceDependencies(e) ==
    IF e.name = "pkg-a" THEN <<ProjectEntry("pkg-b")>> ELSE <<>>

\* the reduce of lines 274-290
RECURSIVE ReduceEntries(_, _)
ReduceEntries(list, rest) ==
    IF rest = <<>> THEN list
    ELSE LET e    == Head(rest)
             deps == IF options.recursive
                     THEN SelectSeq(WorkspaceDependencies(e),
                                    LAMBDA dep : ~IsProjectInList(list, dep))
                     ELSE <<>>
         IN  IF e.kind # "project" THEN ReduceEntries(Append(list, e), Tail(rest))
             ELSE IF IsProjectInList(list, e) THEN ReduceEntries(list, Tail(rest))
             ELSE ReduceEntries(Append(list \o deps, e), Tail(rest))

\* entries = [project], whatever the workspaces
DefaultEntriesRootOnly(ws) == <<ProjectEntry("root")>>

\* entries = workspaces || [project]
DefaultEntries(ws) ==
    IF ws.monorepo THEN [k \in DOMAIN ws.names |-> ProjectEntry(ws.names[k])]
    ELSE <<ProjectEntry("root")>>

\* the orders in which filterLinkedDependencies may collect the linked packages
LinkedOrders == {<<"dep-x", "dep-y">>, <<"dep-y", "dep-x">>}

\* dep-y depends on dep-x
DependsOn(n) == IF n = "dep-y" THEN {"dep-x"} ELSE {}

\* Project.sort(dependencies).list: every package after the packages it depends on
Sort(found) ==
    CHOOSE s \in LinkedOrders :
        \A a, b \in DOMAIN s : s[b] \in DependsOn(s[a]) => b < a

\* the workspaces whose name a pattern of `--link dep-,pkg-[ab]` matches
LinkPatternMatches == {"pkg-a", "pkg-b"}

\* dependencies.concat(project.workspaces || []).filter(...): the workspaces that
\* the --link patterns select besides the linked dependencies
LinkedWorkspaces ==
    IF options.linkWorkspaces
    THEN SelectSeq(workspaces.names, LAMBDA n : n \in LinkPatternMatches)
    ELSE <<>>

\* pkg.linked = true
LinkedEntries(list) == [k \in DOMAIN list |-> [ProjectEntry(list[k]) EXCEPT !.linked = TRUE]]

\* outputRelative (line 267)
OutputRelative ==
    \/ Len(arguments) > 1
    \/ Len(arguments) = 1 /\ arguments[1] = "none/*"

\* buildEntry(): a bundler whose setup() has been called, or undefined for an
\* input that is neither a script, a style, an HTML nor a webmanifest file
BuildEntry(i, target, recognised) ==
    [entry |-> i, target |-> target, defined |-> recognised,
     stage |-> IF recognised THEN "setup" ELSE "none"]

When(cond, target) == IF cond THEN <<target>> ELSE <<>>

\* the buildEntry() calls of a Project entry: lines 355-405 and 419-434
ProjectTargets(e, out) ==
    LET f == Fields(e.name)
    IN  IF f.lib
        THEN IF out /\ ~e.linked
             THEN <<"output">>
             ELSE When(f.module, "module")
                    \o When((~e.linked \/ ~f.module) /\ f.main, "main")
                    \o When((~e.linked \/ ~(f.main \/ f.module)) /\ f.browser, "browser")
                    \o When(f.style /\ f.dist, "style")
                    \o When(f.html, "html")
        ELSE When(f.module, "module") \o When(f.style, "style")

Defined(bs) == SelectSeq(bs, LAMBDA b : b.defined)

\* one pass of the loop of lines 329-458 on entries[i]: the bundlers it pushes
\* and the error it throws ("" when it throws none)
ProcessEntry(i, bs) ==
    LET e     == entries[i]
        f     == Fields(e.name)
        out   == options.output
        calls == [k \in DOMAIN ProjectTargets(e, out) |->
                     BuildEntry(i, ProjectTargets(e, out)[k], TRUE)]
    IN  IF e.kind = "project"
        THEN IF out /\ OutputRelative /\ ~f.lib /\ ~f.module
             THEN [pushed |-> <<>>, error |-> "TypeError"]
             ELSE IF f.lib
             THEN [pushed |-> calls,
                   error  |-> IF Defined(bs \o calls) = <<>>
                              THEN "missing input option for project" ELSE ""]
             ELSE IF f.module \/ f.style
             THEN IF ~out /\ ~f.main
                  THEN [pushed |-> <<>>, error |-> "missing output option"]
                  ELSE [pushed |-> calls, error |-> ""]
             ELSE [pushed |-> <<>>, error |-> "missing source file to build"]
        ELSE IF ~out
             THEN [pushed |-> <<>>, error |-> "missing output option for file"]
             ELSE [pushed |-> <<BuildEntry(i, "output", e.kind = "file")>>, error |-> ""]

\* the command variables while the watch block is running
CommandIdle ==
    /\ workspaces = NotMonorepo
    /\ arguments = <<>>
    /\ options = [output |-> FALSE, link |-> FALSE, linkWorkspaces |-> FALSE,
                  recursive |-> FALSE]
    /\ globbed = <<>>
    /\ entries = <<>>
    /\ step = "await"
    /\ index = 0
    /\ bundlers = <<>>
    /\ error = ""

NoInput == [given |-> FALSE, basename |-> ""]

NoOutput == [given |-> FALSE, path |-> <<>>, extname |-> FALSE]

\* the options Map of a bundler that has not been set up
NoOptions == [set |-> FALSE, input |-> "", output |-> <<>>]

\* no WebManifestBundler is being set up
ManifestIdle ==
    /\ setupArgs = [input |-> NoInput, output |-> NoOutput]
    /\ bundlerOptions = NoOptions
    /\ setupStage = "done"
    /\ setupError = ""

\* the command line has been dispatched to the build command
CLIIdle ==
    /\ cliMode = "run"
    /\ commands = <<>>
    /\ cliPos = 0
    /\ cliStage = "callback"
    /\ profiles = <<>>

NoManifest == [given |-> FALSE, basename |-> "", exists |-> FALSE]

\* no manifest command is running
ActionIdle ==
    /\ actionOptions = [manifest |-> NoManifest, output |-> <<>>, root |-> <<>>]
    /\ manifestRes = "none"

NoResult == [set |-> FALSE, errorCount |-> 0, warningCount |-> 0, results |-> <<>>]

\* no Stylelint.lint call is running
LintIdle ==
    /\ lintFiles = <<>>
    /\ lintReport = <<>>
    /\ lintResult = NoResult
    /\ lintStage = "returned"
    /\ lintReturn = NoResult
    /\ lintRuns = 0

ExtraIdle == ActionIdle /\ LintIdle

OtherIdle == ManifestIdle /\ CLIIdle /\ ExtraIdle

(***************************************************************************)
(* filterChangedBundles(bundles, files)                                    *)
(***************************************************************************)
\* files.map((file) => realpathSync(file.path)) throws for a missing file
FilterThrows(batch, rm) == \E i \in DOMAIN batch : Target(batch[i]) \in rm

\* a filter callback that keeps every bundle
BundleMatchesAlways(bf, batch) == TRUE

\* the filter callback: `return []` is truthy, so a bundle without files is kept
BundleMatches(bf, batch) ==
    IF ~bf.present THEN TRUE
    ELSE \E i \in DOMAIN batch : Target(batch[i]) \in bf.list

FilterChangedBundles(fs, batch) ==
    SelectSeq(BundlerOrder, LAMBDA b : BundleMatches(fs[b], batch))

WatchInit ==
    /\ phase = "initial"
    /\ init = [b \in Bundles |-> "setup"]
    /\ files = [b \in Bundles |-> NoFiles]
    /\ removed = {}
    /\ statuses = [b \in Bundles |-> NoStatus]
    /\ collectedFiles = <<>>
    /\ timeout = FALSE
    /\ chain = <<>>
    /\ waiters = <<>>
    /\ errors = {}
    /\ nEvents = 0
    /\ log = EmptyLog
    /\ early = "none"

Init == WatchInit /\ CommandIdle /\ OtherIdle

(***************************************************************************)
(* reBuild(bundle, files)                                                  *)
(***************************************************************************)
\* line 534: `status.invalidate.length` is read of an undefined list
ReBuildThrows(st) == ~st.running /\ ~st.defined

\* a guard that also returns while a cycle of the bundle is running
ReBuildReturnsWhenRunning(st) ==
    \/ st.running
    \/ st.defined /\ Len(st.invalidate) = 0

\* line 534: status.running && !status.invalidate || status.invalidate.length === 0
ReBuildReturns(st) ==
    \/ st.running /\ ~st.defined
    \/ st.defined /\ Len(st.invalidate) = 0

\* a callback that does not wait for the chain: promise = Promise.resolve().then(...)
CanStartAtOnce(c, i) == TRUE

\* the callback chained on `promise` starts once every earlier callback has finished
CanStart(c, i) == i = 1

\* start the bundle.build(...invalidate) call of every callback whose turn has come
StartReady(c) ==
    [i \in DOMAIN c |->
        IF c[i].stage = "queued" /\ CanStart(c, i)
        THEN [c[i] EXCEPT !.stage = "build"]
        ELSE c[i]]

\* a reBuild that adds the batch to a cycle of the bundle that is still on the chain
ReBuildMerging(s, b, given, fl) ==
    LET st0 == s.status[b]
        st1 == IF given THEN [st0 EXCEPT !.defined = TRUE, !.invalidate = fl] ELSE st0
        own == {i \in DOMAIN s.chain : s.chain[i].bundle = b}
    IN  IF given /\ st0.running /\ own # {}
        THEN [s EXCEPT !.chain = [i \in DOMAIN s.chain |->
                                     IF i \in own
                                     THEN [s.chain[i] EXCEPT !.invalidate = @ \o fl]
                                     ELSE s.chain[i]]]
        ELSE IF ReBuildThrows(st1) \/ ReBuildReturns(st1)
        THEN [s EXCEPT !.status[b] = st1]
        ELSE [status  |-> [s.status EXCEPT ![b] =
                             [running |-> TRUE, defined |-> TRUE, invalidate |-> <<>>]],
              chain   |-> Append(s.chain, Cycle(b, st1.invalidate)),
              started |-> Append(s.started,
                             [bundle |-> b, invalidate |-> st1.invalidate,
                              wasRunning |-> st0.running])]

\* the synchronous part of reBuild, up to `await promise`; s is the scheduler
\* state [status, chain, started]; given = a `files` argument was passed
ReBuild(s, b, given, fl) ==
    LET st0 == s.status[b]
        st1 == IF given THEN [st0 EXCEPT !.defined = TRUE, !.invalidate = fl] ELSE st0
    IN  IF ReBuildThrows(st1) \/ ReBuildReturns(st1)
        THEN [s EXCEPT !.status[b] = st1]
        ELSE [status  |-> [s.status EXCEPT ![b] =
                             [running |-> TRUE, defined |-> TRUE, invalidate |-> <<>>]],
              chain   |-> Append(s.chain, Cycle(b, st1.invalidate)),
              started |-> Append(s.started,
                             [bundle |-> b, invalidate |-> st1.invalidate,
                              wasRunning |-> st0.running])]

\* the loop of lines 580-582
RECURSIVE ReBuildAll(_, _, _)
ReBuildAll(s, bs, batch) ==
    IF bs = <<>> THEN s
    ELSE ReBuildAll(ReBuild(s, Head(bs), TRUE, batch), Tail(bs), batch)

(***************************************************************************)
(* The debounce flush (the setTimeout callback), after its `await promise` *)
(***************************************************************************)
\* a flush without its `await promise`
FlushNeverWaits(c) == FALSE

\* `await promise` suspends the flush while a chained callback is unfinished
FlushMustWait(c) == c # <<>>

\* z is [status, chain, flushes]
FlushBatch(z, batch) ==
    IF FilterThrows(batch, removed)
    THEN [z EXCEPT !.flushes = Append(@, [batch |-> batch, threw |-> TRUE, started |-> <<>>])]
    ELSE LET s == ReBuildAll([status |-> z.status, chain |-> z.chain, started |-> <<>>],
                             FilterChangedBundles(files, batch), batch)
         IN  [status  |-> s.status,
              chain   |-> s.chain,
              flushes |-> Append(z.flushes,
                             [batch |-> batch, threw |-> FALSE, started |-> s.started])]

\* the suspended flushes resume in the order in which they awaited
RECURSIVE RunWaiters(_, _)
RunWaiters(z, ws) ==
    IF ws = <<>> THEN z ELSE RunWaiters(FlushBatch(z, Head(ws)), Tail(ws))

(***************************************************************************)
(* The end of a chained callback and the continuation of reBuild           *)
(***************************************************************************)
\* without the try/catch the callback never fulfils: the chain stops at the failed cycle
AfterErrorUncaught(c, i) == [c EXCEPT ![i].stage = "hung"]

\* lines 546-550: the error is caught, so the chain goes on with the next callback
AfterError(c, i) == RemoveAt(c, i)

\* a continuation of reBuild that leaves the flag set
StatusAfterCycleStillRunning(st) == st

\* line 553
StatusAfterCycle(st) == [st EXCEPT !.running = FALSE]

\* cycle i ends (ok or with a caught error): `await promise` of its reBuild resumes
\* (lines 553-555), then, if the chain is exhausted, the suspended flushes
CompleteCycle(i, ok) ==
    LET b  == chain[i].bundle
        c1 == IF ok THEN RemoveAt(chain, i) ELSE AfterError(chain, i)
        s1 == ReBuild([status  |-> [statuses EXCEPT ![b] = StatusAfterCycle(@)],
                       chain   |-> c1,
                       started |-> <<>>], b, FALSE, <<>>)
        z1 == [status  |-> s1.status,
               chain   |-> s1.chain,
               flushes |-> IF s1.started = <<>> THEN <<>>
                           ELSE <<[batch |-> <<>>, threw |-> FALSE, started |-> s1.started]>>]
        z2 == IF FlushMustWait(c1) THEN z1 ELSE RunWaiters(z1, waiters)
    IN  /\ statuses' = z2.status
        /\ chain' = StartReady(z2.chain)
        /\ waiters' = IF FlushMustWait(c1) THEN waiters ELSE <<>>
        /\ log' = [done    |-> <<[bundle |-> b, ok |-> ok, built |-> chain[i].built]>>,
                   flushes |-> z2.flushes]
        /\ errors' = IF ok THEN errors ELSE errors \cup {b}

(***************************************************************************)
(* The initial builds: buildEntry() and `await Promise.all(...)`           *)
(***************************************************************************)
\* bundler.setup(...).then(() => bundler.build()).then(() => bundler.write())
InitStep(b) ==
    /\ init[b] \in {"setup", "build", "write"}
    /\ \/ /\ init[b] = "setup"
          /\ init' = [init EXCEPT ![b] = "build"]
          /\ files' = files
       \/ /\ init[b] = "build"
          /\ init' = [init EXCEPT ![b] = "write"]
          /\ \E fl \in FileOptions(b) :
                files' = [files EXCEPT ![b] = [present |-> TRUE, list |-> fl]]
       \/ /\ init[b] = "write"
          /\ init' = [init EXCEPT ![b] = "done"]
          /\ files' = files
    /\ UNCHANGED <<phase, removed, statuses, collectedFiles, timeout, chain, waiters,
                   errors, nEvents, log, outsideVars>>

InitFail(b) ==
    /\ init[b] \in {"setup", "build", "write"}
    /\ init' = [init EXCEPT ![b] = "failed"]
    /\ UNCHANGED <<phase, files, removed, statuses, collectedFiles, timeout, chain,
                   waiters, errors, nEvents, log, outsideVars>>

\* bundler.toPromise(): settled with the outcome of the bundler's initial pipeline
ToPromiseResolved(b) == init[b] = "done"

ToPromiseRejected(b) == init[b] = "failed"

\* the watch block entered without awaiting the initial builds
InitialNotAwaited == TRUE

\* await Promise.all(bundlers.filter(Boolean).map((bundler) => bundler.toPromise()))
AllInitialSettled == \A b \in Bundles : ToPromiseResolved(b)

\* project.watch(...) is reached (options.watch)
StartWatch ==
    /\ phase = "initial"
    /\ AllInitialSettled
    /\ phase' = "watching"
    /\ UNCHANGED <<init, files, removed, statuses, collectedFiles, timeout, chain,
                   waiters, errors, nEvents, log, outsideVars>>

\* Promise.all rejects: the action throws and never reaches the watch block
AbortAction ==
    /\ phase = "initial"
    /\ \E b \in Bundles : ToPromiseRejected(b)
    /\ phase' = "aborted"
    /\ UNCHANGED <<init, files, removed, statuses, collectedFiles, timeout, chain,
                   waiters, errors, nEvents, log, outsideVars>>

\* a file that a finished initial build() lists is modified before project.watch()
\* is called: no watcher exists yet, so the change is seen by no callback
EarlyChange(p) ==
    /\ phase = "initial"
    /\ early = "none"
    /\ \E b \in Bundles : files[b].present /\ Target(p) \in files[b].list
    /\ early' = p
    /\ UNCHANGED <<phase, init, files, removed, statuses, collectedFiles, timeout, chain,
                   waiters, errors, nEvents, log, commandVars, otherVars>>

(***************************************************************************)
(* The watcher                                                             *)
(***************************************************************************)
\* ignore: (file) => !filterChangedBundles(bundlers, [file]).length
Ignore(p) == Len(FilterChangedBundles(files, <<p>>)) = 0

\* what a call of the ignore predicate does: realpathSync throws for a missing
\* file, otherwise the predicate returns whether no bundle was selected
IgnoreOutcome(fs, rm, p) ==
    IF FilterThrows(<<p>>, rm) THEN "throws"
    ELSE IF Len(FilterChangedBundles(fs, <<p>>)) = 0 THEN "skip" ELSE "report"

\* the watcher invokes the callback for every event that the ignore predicate does not match
WatcherReports(p) == ~Ignore(p)

\* a watch callback that collects a path once
CallbackOnce(p) ==
    /\ nEvents < MaxEvents
    /\ collectedFiles' = IF \E k \in DOMAIN collectedFiles : collectedFiles[k] = p
                         THEN collectedFiles ELSE Append(collectedFiles, p)
    /\ timeout' = TRUE
    /\ nEvents' = nEvents + 1
    /\ log' = EmptyLog
    /\ UNCHANGED <<phase, init, files, statuses, chain, waiters, errors, outsideVars>>

\* the watch callback: log, collectedFiles.push(file), clearTimeout, setTimeout
Callback(p) ==
    /\ nEvents < MaxEvents
    /\ collectedFiles' = Append(collectedFiles, p)
    /\ timeout' = TRUE
    /\ nEvents' = nEvents + 1
    /\ log' = EmptyLog
    /\ UNCHANGED <<phase, init, files, statuses, chain, waiters, errors, outsideVars>>

\* an existing file is modified; the event is reported unless it is ignored
Change(p) ==
    /\ phase = "watching"
    /\ Target(p) \notin removed
    /\ WatcherReports(p)
    /\ removed' = removed
    /\ Callback(p)

\* a removed file is created again
Create(p) ==
    /\ phase = "watching"
    /\ p \in removed
    /\ removed' = removed \ {p}
    /\ IF ~WatcherReports(p)
       THEN /\ log' = EmptyLog
            /\ UNCHANGED <<phase, init, files, statuses, collectedFiles, timeout, chain,
                           waiters, errors, nEvents, outsideVars>>
       ELSE Callback(p)

\* a file is deleted; realpathSync throws inside the ignore predicate, and the
\* watcher either reports the 'unlink' event or drops it
Unlink(p, reported) ==
    /\ phase = "watching"
    /\ p \in Removable \ removed
    /\ removed' = removed \cup {p}
    /\ IF reported
       THEN Callback(p)
       ELSE /\ log' = EmptyLog
            /\ UNCHANGED <<phase, init, files, statuses, collectedFiles, timeout, chain,
                           waiters, errors, nEvents, outsideVars>>

\* a flush that copies the buffer without emptying it
TimerFireKeepsBuffer ==
    /\ timeout
    /\ timeout' = FALSE
    /\ collectedFiles' = collectedFiles
    /\ IF FlushMustWait(chain)
       THEN /\ waiters' = Append(waiters, collectedFiles)
            /\ log' = EmptyLog
            /\ UNCHANGED <<statuses, chain>>
       ELSE LET z == FlushBatch([status |-> statuses, chain |-> chain, flushes |-> <<>>],
                                collectedFiles)
            IN  /\ statuses' = z.status
                /\ chain' = StartReady(z.chain)
                /\ waiters' = waiters
                /\ log' = [done |-> <<>>, flushes |-> z.flushes]
    /\ UNCHANGED <<phase, init, files, removed, errors, nEvents, outsideVars>>

\* the debounce timer expires: lines 569-583
TimerFire ==
    /\ timeout
    /\ timeout' = FALSE
    /\ collectedFiles' = <<>>
    /\ IF FlushMustWait(chain)
       THEN /\ waiters' = Append(waiters, collectedFiles)
            /\ log' = EmptyLog
            /\ UNCHANGED <<statuses, chain>>
       ELSE LET z == FlushBatch([status |-> statuses, chain |-> chain, flushes |-> <<>>],
                                collectedFiles)
            IN  /\ statuses' = z.status
                /\ chain' = StartReady(z.chain)
                /\ waiters' = waiters
                /\ log' = [done |-> <<>>, flushes |-> z.flushes]
    /\ UNCHANGED <<phase, init, files, removed, errors, nEvents, outsideVars>>

(***************************************************************************)
(* The bundler calls of a rebuild cycle: lines 543-550                     *)
(***************************************************************************)
\* bundle.build(...invalidate) resolves, having recomputed bundle.files
BuildOk(i) ==
    /\ i \in DOMAIN chain
    /\ chain[i].stage = "build"
    /\ chain' = [chain EXCEPT ![i].stage = "write", ![i].built = TRUE]
    /\ \E fl \in FileOptions(chain[i].bundle) :
          files' = [files EXCEPT ![chain[i].bundle] = [present |-> TRUE, list |-> fl]]
    /\ log' = EmptyLog
    /\ UNCHANGED <<phase, init, removed, statuses, collectedFiles, timeout, waiters,
                   errors, nEvents, outsideVars>>

\* a rejection of bundle.build(...invalidate) that is swallowed before bundle.write()
BuildFailIgnored(i) ==
    /\ i \in DOMAIN chain
    /\ chain[i].stage = "build"
    /\ chain' = [chain EXCEPT ![i].stage = "write"]
    /\ log' = EmptyLog
    /\ UNCHANGED <<phase, init, files, removed, statuses, collectedFiles, timeout,
                   waiters, errors, nEvents, outsideVars>>

\* bundle.build(...invalidate) rejects
BuildFail(i) ==
    /\ i \in DOMAIN chain
    /\ chain[i].stage = "build"
    /\ CompleteCycle(i, FALSE)
    /\ UNCHANGED <<phase, init, files, removed, collectedFiles, timeout, nEvents, outsideVars>>

\* bundle.build(...invalidate) never settles
BuildHang(i) ==
    /\ i \in DOMAIN chain
    /\ chain[i].stage = "build"
    /\ chain' = [chain EXCEPT ![i].stage = "hung"]
    /\ log' = EmptyLog
    /\ UNCHANGED <<phase, init, files, removed, statuses, collectedFiles, timeout,
                   waiters, errors, nEvents, outsideVars>>

\* bundle.write() resolves
WriteOk(i) ==
    /\ i \in DOMAIN chain
    /\ chain[i].stage = "write"
    /\ CompleteCycle(i, TRUE)
    /\ UNCHANGED <<phase, init, files, removed, collectedFiles, timeout, nEvents, outsideVars>>

\* bundle.write() rejects
WriteFail(i) ==
    /\ i \in DOMAIN chain
    /\ chain[i].stage = "write"
    /\ CompleteCycle(i, FALSE)
    /\ UNCHANGED <<phase, init, files, removed, collectedFiles, timeout, nEvents, outsideVars>>

Next ==
    \/ \E b \in Bundles : InitStep(b)
    \/ \E b \in Bundles : InitFail(b)
    \/ StartWatch
    \/ AbortAction
    \/ \E p \in Paths : Change(p)
    \/ \E p \in Paths : Create(p)
    \/ \E p \in Paths : \E reported \in BOOLEAN : Unlink(p, reported)
    \/ TimerFire
    \/ \E i \in 1..(2 * MaxEvents) : BuildOk(i)
    \/ \E i \in 1..(2 * MaxEvents) : BuildFail(i)
    \/ \E i \in 1..(2 * MaxEvents) : BuildHang(i)
    \/ \E i \in 1..(2 * MaxEvents) : WriteOk(i)
    \/ \E i \in 1..(2 * MaxEvents) : WriteFail(i)

Spec == Init /\ [][Next]_vars

\* the watch block together with the changes made before the watcher exists; the
\* event loop runs the continuation of `await Promise.all(...)` and an armed timer
NextSetup ==
    \/ Next
    \/ \E p \in Paths : EarlyChange(p)

SpecSetup ==
    Init /\ [][NextSetup]_vars /\ WF_vars(StartWatch) /\ WF_vars(TimerFire)

(***************************************************************************)
(* filterChangedBundles over bundlers whose `files` may be absent: the      *)
(* watch block as entered with such bundlers                                *)
(***************************************************************************)
\* bundle.files of a bundler when the watcher is registered
FilesOptions(b) == {NoFiles} \cup {[present |-> TRUE, list |-> fl] : fl \in FileOptions(b)}

InitFilter ==
    /\ phase = "watching"
    /\ init = [b \in Bundles |-> "done"]
    /\ \E fa \in FilesOptions("A") : \E fb \in FilesOptions("B") :
          files = [b \in Bundles |-> IF b = "A" THEN fa ELSE fb]
    /\ removed = {}
    /\ statuses = [b \in Bundles |-> NoStatus]
    /\ collectedFiles = <<>>
    /\ timeout = FALSE
    /\ chain = <<>>
    /\ waiters = <<>>
    /\ errors = {}
    /\ nEvents = 0
    /\ log = EmptyLog
    /\ early = "none"
    /\ CommandIdle
    /\ OtherIdle

NextFilter ==
    \/ \E p \in Paths : Change(p)
    \/ \E p \in Paths : Create(p)
    \/ \E p \in Paths : \E reported \in BOOLEAN : Unlink(p, reported)
    \/ TimerFire
    \/ \E i \in 1..(2 * MaxEvents) : BuildOk(i)
    \/ \E i \in 1..(2 * MaxEvents) : BuildFail(i)
    \/ \E i \in 1..(2 * MaxEvents) : BuildHang(i)
    \/ \E i \in 1..(2 * MaxEvents) : WriteOk(i)
    \/ \E i \in 1..(2 * MaxEvents) : WriteFail(i)

SpecFilter == InitFilter /\ [][NextFilter]_vars

(***************************************************************************)
(* The build action up to the initial builds: lines 264-458                *)
(***************************************************************************)
ArgumentLists ==
    UNION {[1..n -> ArgPatterns] : n \in 0..MaxArgs}

InitCommand ==
    /\ WatchInit
    /\ OtherIdle
    /\ workspaces \in WorkspaceOptions
    /\ arguments \in ArgumentLists
    /\ options \in [output : BOOLEAN, link : BOOLEAN, linkWorkspaces : BOOLEAN,
                     recursive : BOOLEAN]
    /\ options.linkWorkspaces => options.link
    /\ globbed = <<>>
    /\ entries = <<>>
    /\ step = "resolve"
    /\ index = 0
    /\ bundlers = <<>>
    /\ error = ""

\* lines 264-297: the entries of the invocation
ResolveEntries ==
    /\ step = "resolve"
    /\ LET r == ProjectResolve(workspaces, arguments)
           l == IF arguments # <<>> THEN ReduceEntries(<<>>, r.files)
                ELSE DefaultEntries(workspaces)
       IN  /\ entries' = l
           /\ globbed' = IF arguments # <<>> THEN r.globbed ELSE <<>>
           /\ step' = IF l = <<>> THEN "thrown" ELSE "link"
           /\ error' = IF l = <<>> THEN "missing files to build" ELSE ""
    /\ UNCHANGED <<watchVars, otherVars, workspaces, arguments, options, index, bundlers>>

\* lines 299-324: entries.unshift(...list)
LinkDependencies ==
    /\ step = "link"
    /\ IF options.link
       THEN \E found \in LinkedOrders :
               entries' = LinkedEntries(Sort(found) \o LinkedWorkspaces) \o entries
       ELSE entries' = entries
    /\ step' = "process"
    /\ index' = 1
    /\ UNCHANGED <<watchVars, otherVars, workspaces, arguments, options, globbed, bundlers, error>>

\* lines 452-513: bundlers.forEach((bundler) => { bundler.on(...) }) dereferences
\* every element of the list
ListenersThrow(bs) == \E k \in DOMAIN bs : ~bs[k].defined

\* one pass of the loop; after the last entry the listeners are attached and the
\* action awaits the bundlers
LoopStep ==
    /\ step = "process"
    /\ LET r    == ProcessEntry(index, bundlers)
           last == r.error = "" /\ index = Len(entries)
       IN  /\ bundlers' = bundlers \o r.pushed
           /\ error' = IF last /\ ListenersThrow(bundlers \o r.pushed)
                       THEN "TypeError in listeners" ELSE r.error
           /\ step' = IF r.error # "" THEN "thrown"
                      ELSE IF ~last THEN "process"
                      ELSE IF ListenersThrow(bundlers \o r.pushed) THEN "thrown"
                      ELSE "await"
           /\ index' = IF r.error # "" THEN index ELSE index + 1
    /\ UNCHANGED <<watchVars, otherVars, workspaces, arguments, options, globbed, entries>>

\* setup(...).then(() => bundler.build()).then(() => bundler.write()) of a bundler
\* goes one stage further while the action is in the loop or awaits the bundlers
PipelineStep(k) ==
    /\ step \in {"process", "await"}
    /\ k \in DOMAIN bundlers
    /\ bundlers[k].stage \in {"setup", "build", "write"}
    /\ bundlers' = [bundlers EXCEPT ![k].stage =
                       CASE @ = "setup" -> "build"
                         [] @ = "build" -> "write"
                         [] OTHER -> "done"]
    /\ UNCHANGED <<watchVars, otherVars, workspaces, arguments, options, globbed, entries, step,
                   index, error>>

MaxBundlers == 2 * (MaxArgs + 2)

NextCommand ==
    \/ ResolveEntries
    \/ LinkDependencies
    \/ LoopStep
    \/ \E k \in 1..MaxBundlers : PipelineStep(k)

SpecCommand == InitCommand /\ [][NextCommand]_vars

(***************************************************************************)
(* WebManifestBundler.setup(options): src/unnamed/part_000, lines 62-76     *)
(***************************************************************************)
InputOptions ==
    {NoInput, [given |-> TRUE, basename |-> "manifest.json"],
     [given |-> TRUE, basename |-> "site.webmanifest"]}

\* an output is a directory (no extension) or a file; a path is its list of segments
OutputOptions ==
    {NoOutput,
     [given |-> TRUE, path |-> <<"dist">>, extname |-> FALSE],
     [given |-> TRUE, path |-> <<"public", "app">>, extname |-> FALSE],
     [given |-> TRUE, path |-> <<"dist", "app.webmanifest">>, extname |-> TRUE],
     [given |-> TRUE, path |-> <<"out", "m.json">>, extname |-> TRUE]}

\* this.options before the call: empty, or left by an earlier setup()
PriorOptions ==
    {NoOptions,
     [set |-> TRUE, input |-> "old.json", output |-> <<"old", "old.json">>],
     [set |-> TRUE, input |-> "manifest.json", output |-> <<"dist", "manifest.json">>],
     [set |-> TRUE, input |-> "site.webmanifest", output |-> <<"out", "m.json">>]}

InitManifest ==
    /\ WatchInit
    /\ CommandIdle
    /\ CLIIdle
    /\ ExtraIdle
    /\ setupArgs \in [input : InputOptions, output : OutputOptions]
    /\ bundlerOptions \in PriorOptions
    /\ setupStage = "call"
    /\ setupError = ""

\* a setup() without the two checks
SetupCallUnchecked ==
    /\ setupStage = "call"
    /\ setupStage' = "super"
    /\ setupError' = ""
    /\ UNCHANGED <<watchVars, commandVars, cliVars, extraVars, setupArgs, bundlerOptions>>

\* lines 63-71: the two checks, then the call of super.setup(options)
SetupCall ==
    /\ setupStage = "call"
    /\ IF ~setupArgs.input.given
       THEN setupStage' = "thrown" /\ setupError' = "input"
       ELSE IF ~setupArgs.output.given
       THEN setupStage' = "thrown" /\ setupError' = "output"
       ELSE setupStage' = "super" /\ setupError' = ""
    /\ UNCHANGED <<watchVars, commandVars, cliVars, extraVars, setupArgs, bundlerOptions>>

\* Bundler.setup(options) stores the options of the call
SuperSetup(args) ==
    [set |-> TRUE, input |-> args.input.basename, output |-> args.output.path]

\* output.file(input.basename)
OutputFile(output, input) == Append(output.path, input.basename)

\* lines 71-75: super.setup() has resolved; an output without extension is replaced
SetupResume ==
    /\ setupStage = "super"
    /\ bundlerOptions' =
          IF ~setupArgs.output.extname
          THEN [SuperSetup(setupArgs) EXCEPT
                   !.output = OutputFile(setupArgs.output, setupArgs.input)]
          ELSE SuperSetup(setupArgs)
    /\ setupStage' = "done"
    /\ UNCHANGED <<watchVars, commandVars, cliVars, extraVars, setupArgs, setupError>>

NextManifest ==
    \/ SetupCall
    \/ SetupResume

SpecManifest == InitManifest /\ [][NextManifest]_vars

(***************************************************************************)
(* CLI.start(argv) and CLI.exec(command, options): src/unnamed/part_001,    *)
(* lines 949-1016                                                          *)
(***************************************************************************)
MaxCommands == 3

\* a parsed command: its --help flag and whether its callback rejects
CommandKinds == [help : BOOLEAN, throws : BOOLEAN]

CommandLists == UNION {[1..n -> CommandKinds] : n \in 0..MaxCommands}

NoProfile == [tasks |-> 0, ends |-> 0]

InitCLI ==
    /\ WatchInit
    /\ CommandIdle
    /\ ManifestIdle
    /\ ExtraIdle
    /\ cliMode \in {"version", "help", "run"}
    /\ commands \in CommandLists
    /\ cliPos = 0
    /\ cliStage = "start"
    /\ profiles = [i \in DOMAIN commands |-> NoProfile]

\* lines 953-966: the version, the help or the help of one command is printed
StartPrintsOnly ==
    \/ cliMode \in {"version", "help"}
    \/ commands = <<>>
    \/ Len(commands) = 1 /\ commands[1].help

\* lines 949-974: start() up to the loop over the commands
StartCall ==
    /\ cliStage = "start"
    /\ IF StartPrintsOnly
       THEN cliStage' = "returned" /\ cliPos' = 0
       ELSE cliStage' = "exec" /\ cliPos' = 1
    /\ UNCHANGED <<watchVars, commandVars, manifestVars, extraVars, cliMode, commands, profiles>>

\* lines 1001-1009: exec() opens the profile task and calls the command
ExecCall ==
    /\ cliStage = "exec"
    /\ profiles' = [profiles EXCEPT ![cliPos].tasks = @ + 1]
    /\ cliStage' = "callback"
    /\ UNCHANGED <<watchVars, commandVars, manifestVars, extraVars, cliMode, commands, cliPos>>

\* lines 1009-1011 and 974-978: the callback resolves, exec() returns, the loop goes on
CallbackResolves ==
    /\ cliStage = "callback"
    /\ cliPos \in DOMAIN commands
    /\ ~commands[cliPos].throws
    /\ profiles' = [profiles EXCEPT ![cliPos].ends = @ + 1]
    /\ IF cliPos = Len(commands)
       THEN cliStage' = "returned" /\ cliPos' = cliPos
       ELSE cliStage' = "exec" /\ cliPos' = cliPos + 1
    /\ UNCHANGED <<watchVars, commandVars, manifestVars, extraVars, cliMode, commands>>

\* an exec() that swallows the error of the command
CallbackRejectsSwallowed ==
    /\ cliStage = "callback"
    /\ cliPos \in DOMAIN commands
    /\ commands[cliPos].throws
    /\ profiles' = [profiles EXCEPT ![cliPos].ends = @ + 1]
    /\ IF cliPos = Len(commands)
       THEN cliStage' = "returned" /\ cliPos' = cliPos
       ELSE cliStage' = "exec" /\ cliPos' = cliPos + 1
    /\ UNCHANGED <<watchVars, commandVars, manifestVars, extraVars, cliMode, commands>>

\* lines 1012-1015: the callback rejects, exec() ends the profile and rethrows;
\* `await this.exec(...)` in start() is in no try block, so start() rejects
CallbackRejects ==
    /\ cliStage = "callback"
    /\ cliPos \in DOMAIN commands
    /\ commands[cliPos].throws
    /\ profiles' = [profiles EXCEPT ![cliPos].ends = @ + 1]
    /\ cliStage' = "thrown"
    /\ UNCHANGED <<watchVars, commandVars, manifestVars, extraVars, cliMode, commands, cliPos>>

NextCLI ==
    \/ StartCall
    \/ ExecCall
    \/ CallbackResolves
    \/ CallbackRejects

SpecCLI == InitCLI /\ [][NextCLI]_vars

(***************************************************************************)
(* The action of the manifest command: src/unnamed/part_002, lines 19-92,   *)
(* without the optional --index page                                        *)
(***************************************************************************)
\* options.manifest: not given, or a file that exists or does not exist
ManifestInputs ==
    {NoManifest,
     [given |-> TRUE, basename |-> "manifest.json", exists |-> TRUE],
     [given |-> TRUE, basename |-> "site.webmanifest", exists |-> TRUE],
     [given |-> TRUE, basename |-> "manifest.json", exists |-> FALSE],
     [given |-> TRUE, basename |-> "new.json", exists |-> FALSE]}

\* options.output: not given (the empty path), or a directory
OutputDirs == {<<>>, <<"dist">>, <<"public", "app">>}

\* root: the project, or project.directory(options.arguments[0])
Roots == {<<>>, <<"app">>, <<"site">>}

InitAction ==
    /\ WatchInit
    /\ CommandIdle
    /\ CLIIdle
    /\ LintIdle
    /\ actionOptions \in [manifest : ManifestInputs, output : OutputDirs, root : Roots]
    /\ manifestRes = "none"
    /\ setupArgs = [input |-> NoInput, output |-> NoOutput]
    /\ bundlerOptions = NoOptions
    /\ setupStage = "action"
    /\ setupError = ""

\* lines 44-46: manifestOptions.input is set only when --manifest is given
ManifestInput(o) ==
    IF o.manifest.given THEN [given |-> TRUE, basename |-> o.manifest.basename]
    ELSE NoInput

\* lines 61-80: manifestOptions.output
ManifestOutput(o) ==
    LET name == IF o.manifest.given THEN o.manifest.basename ELSE "manifest.json"
    IN  IF o.output # <<>>
        THEN [given |-> TRUE, path |-> Append(o.output, name), extname |-> TRUE]
        ELSE [given |-> TRUE, path |-> Append(o.root, "manifest.json"), extname |-> TRUE]

\* lines 24-82: the options of the bundler are put together and setup() is called
ActionStart ==
    /\ setupStage = "action"
    /\ setupArgs' = [input |-> ManifestInput(actionOptions),
                     output |-> ManifestOutput(actionOptions)]
    /\ setupStage' = "call"
    /\ UNCHANGED <<watchVars, commandVars, cliVars, extraVars, bundlerOptions, setupError>>

\* line 83 and part_000 lines 107-112: build() reads the input file, or starts
\* from an empty manifest when the file does not exist
ManifestBuild ==
    /\ setupStage = "done"
    /\ manifestRes' = IF actionOptions.manifest.exists THEN "file" ELSE "defaults"
    /\ setupStage' = "built"
    /\ UNCHANGED <<watchVars, commandVars, cliVars, lintVars, actionOptions, setupArgs,
                   bundlerOptions, setupError>>

NextAction ==
    \/ ActionStart
    \/ SetupCall
    \/ SetupResume
    \/ ManifestBuild

SpecAction == InitAction /\ [][NextAction]_vars

(***************************************************************************)
(* Stylelint.lint(files) and transformResult(report):                       *)
(* src/lib/Linters/Stylelint.js, lines 42-100                               *)
(***************************************************************************)
MaxFiles == 2

MaxWarnings == 2

LintPaths == {"a.css", "b.css", "gone.css"}

\* fs.existsSync(file)
Exists(f) == f # "gone.css"

\* the severities of the warnings that stylelint reports for one file
WarningLists == UNION {[1..n -> {"error", "warning"}] : n \in 0..MaxWarnings}

\* the reports stylelint may resolve with for a list of files: one result per file
Reports(fl) ==
    {[k \in DOMAIN fl |-> [source |-> fl[k], warnings |-> ws[k]]] :
        ws \in [DOMAIN fl -> WarningLists]}

\* a per-file result that counts every warning as an error
FileResultAllErrors(r) ==
    [filePath     |-> r.source,
     warningCount |-> 0,
     errorCount   |-> Len(r.warnings),
     messages     |-> [m \in DOMAIN r.warnings |-> 2]]

\* lines 45-70: the result of one file
FileResult(r) ==
    [filePath     |-> r.source,
     warningCount |-> Len(SelectSeq(r.warnings, LAMBDA w : w # "error")),
     errorCount   |-> Len(SelectSeq(r.warnings, LAMBDA w : w = "error")),
     messages     |-> [m \in DOMAIN r.warnings |-> IF r.warnings[m] = "error" THEN 2 ELSE 1]]

\* errorCount += fileErrorCount over the files
RECURSIVE SumErrors(_)
SumErrors(rs) == IF rs = <<>> THEN 0 ELSE Head(rs).errorCount + SumErrors(Tail(rs))

\* warningCount += fileWarningCount over the files
RECURSIVE SumWarnings(_)
SumWarnings(rs) == IF rs = <<>> THEN 0 ELSE Head(rs).warningCount + SumWarnings(Tail(rs))

\* transformResult(report)
TransformResult(report) ==
    LET results == [k \in DOMAIN report |-> FileResult(report[k])]
    IN  [set |-> TRUE, errorCount |-> SumErrors(results),
         warningCount |-> SumWarnings(results), results |-> results]

\* Linter.merge(a, b): the counts added, the file results of b after those of a
Merge(a, b) ==
    [set |-> TRUE, errorCount |-> a.errorCount + b.errorCount,
     warningCount |-> a.warningCount + b.warningCount, results |-> a.results \o b.results]

\* this.result before the call: undefined, or left by an earlier lint() of a.css
PriorResults == {NoResult} \cup {TransformResult(r) : r \in Reports(<<"a.css">>)}

FileLists == UNION {[1..n -> LintPaths] : n \in 0..MaxFiles}

InitLint ==
    /\ WatchInit
    /\ CommandIdle
    /\ ManifestIdle
    /\ CLIIdle
    /\ ActionIdle
    /\ lintFiles \in FileLists
    /\ lintReport = <<>>
    /\ lintResult \in PriorResults
    /\ lintStage = "call"
    /\ lintReturn = NoResult
    /\ lintRuns = 0

\* lines 82-90: the files that exist; none: return this.result; else run stylelint
LintCall ==
    /\ lintStage = "call"
    /\ LET files_ == SelectSeq(lintFiles, Exists)
       IN  IF files_ = <<>>
           THEN /\ lintStage' = "returned"
                /\ lintReturn' = lintResult
                /\ lintRuns' = lintRuns
           ELSE /\ lintStage' = "stylelint"
                /\ lintReturn' = lintReturn
                /\ lintRuns' = lintRuns + 1
    /\ UNCHANGED <<watchVars, commandVars, manifestVars, cliVars, actionVars, lintFiles,
                   lintReport, lintResult>>

\* lines 90-99: stylelint.lint(config) resolves with a report of the existing files
StylelintResolves ==
    /\ lintStage = "stylelint"
    /\ \E report \in Reports(SelectSeq(lintFiles, Exists)) :
          LET res == TransformResult(report)
              new == IF lintResult.set THEN Merge(lintResult, res) ELSE res
          IN  /\ lintReport' = report
              /\ lintResult' = new
              /\ lintReturn' = new
    /\ lintStage' = "returned"
    /\ UNCHANGED <<watchVars, commandVars, manifestVars, cliVars, actionVars, lintFiles,
                   lintRuns>>

\* stylelint.lint(config) rejects: lint() rejects before this.result is assigned
StylelintRejects ==
    /\ lintStage = "stylelint"
    /\ lintStage' = "thrown"
    /\ UNCHANGED <<watchVars, commandVars, manifestVars, cliVars, actionVars, lintFiles,
                   lintReport, lintResult, lintReturn, lintRuns>>

NextLint ==
    \/ LintCall
    \/ StylelintResolves
    \/ StylelintRejects

SpecLint == InitLint /\ [][NextLint]_vars

(***************************************************************************)
(* Properties                                                              *)
(***************************************************************************)
\* bundle b lists the physical file behind path p
Tracks(b, p) == files[b].present /\ Target(p) \in files[b].list

\* the bundles whose files contain a path of the batch
Affected(batch) == {b \in Bundles : \E i \in DOMAIN batch : Tracks(b, batch[i])}

\* the bundles on which a flush started a rebuild cycle
StartedBundles(r) == {r.started[m].bundle : m \in DOMAIN r.started}

\* the flushes (and tail calls) that scheduled in the last step
Flushes == {log.flushes[k] : k \in DOMAIN log.flushes}

CyclesOf(b) == {i \in DOMAIN chain : chain[i].bundle = b}

HungCycles == {i \in DOMAIN chain : chain[i].stage = "hung"}

\* C1: in watch mode at most one build()+write() sequence of a bundle is in
\* flight at any time: a later cycle of the bundle has not started while an
\* earlier one has neither completed its write() nor failed.
C1_OneCyclePerBundleInFlight ==
    \A b \in Bundles : Cardinality({i \in CyclesOf(b) : InFlight(chain[i])}) <= 1

\* two cycles of one bundle are scheduled: the first in flight, the second waiting
C1_Witness ==
    \E i, j \in DOMAIN chain :
        /\ i < j
        /\ chain[i].bundle = chain[j].bundle
        /\ InFlight(chain[i])
        /\ chain[j].stage = "queued"

\* C2: no invalidating change is dropped: every path of a flushed batch that
\* belongs to a bundle's files is passed to a build() call on that bundle.
C2_NoChangeDropped ==
    \A r \in Flushes : \A i \in DOMAIN r.batch : \A b \in Bundles :
        Tracks(b, r.batch[i]) =>
            \E m \in DOMAIN r.started :
                /\ r.started[m].bundle = b
                /\ \E n \in DOMAIN r.started[m].invalidate :
                      r.started[m].invalidate[n] = r.batch[i]

\* C3: a batch of change events that only touches paths outside every bundle's
\* files issues no build() call on any bundle.
C3_UntrackedNeverBuilds ==
    \A r \in Flushes : Affected(r.batch) = {} => r.started = <<>>

\* a non-empty batch of untracked paths went through the lookup and built nothing
C3_Witness ==
    \E r \in Flushes : r.batch # <<>> /\ ~r.threw /\ Affected(r.batch) = {} /\ r.started = <<>>

\* C4: for every flushed batch the bundles on which a rebuild is started are
\* exactly the bundles whose files contain at least one path of the batch.
C4_ExactlyAffectedRebuilt ==
    \A r \in Flushes : StartedBundles(r) = Affected(r.batch)

C6_Coalescing ==
    /\ \A b \in Bundles : Cardinality(CyclesOf(b)) <= 1
    /\ \A r \in Flushes : \A m \in DOMAIN r.started : ~r.started[m].wasRunning

\* C7: debounce: every event appends its path and re-arms the timer; on expiry
\* the whole burst is one batch, and every flushed batch starts exactly one
\* rebuild cycle per affected bundle.
C7_OneCyclePerBurst ==
    [][/\ (nEvents' = nEvents + 1) =>
            (\E p \in Paths : collectedFiles' = Append(collectedFiles, p)) /\ timeout'
       /\ (timeout /\ ~timeout') =>
            /\ collectedFiles' = <<>>
            /\ IF chain = <<>>
               THEN Len(log'.flushes) = 1 /\ log'.flushes[1].batch = collectedFiles
               ELSE waiters' = Append(waiters, collectedFiles)
       /\ \A k \in DOMAIN log'.flushes : \A b \in Bundles :
            LET r == log'.flushes[k]
            IN  Cardinality({m \in DOMAIN r.started : r.started[m].bundle = b})
                    = IF \E i \in DOMAIN r.batch : files[b].present /\ Target(r.batch[i]) \in files[b].list
                      THEN 1 ELSE 0]_vars

\* the step in which a failed cycle ends: the error is caught and reported, the
\* bundle is no longer marked running (unless a waiting batch reschedules it), the
\* watcher stays active, the other scheduled cycles are kept and the next one
\* starts, and the waiting flushes are resumed
ErrorIsContained ==
    [][(log'.done # <<>> /\ ~log'.done[1].ok) =>
            LET b    == log'.done[1].bundle
                rest == Tail(chain)
            IN  /\ b \in errors'
                /\ phase' = "watching"
                /\ timeout' = timeout /\ collectedFiles' = collectedFiles
                /\ statuses'[b].running =
                      (\E k \in DOMAIN log'.flushes : \E m \in DOMAIN log'.flushes[k].started :
                            log'.flushes[k].started[m].bundle = b)
                /\ Len(chain') >= Len(rest)
                /\ \A k \in DOMAIN rest :
                      /\ chain'[k].bundle = rest[k].bundle
                      /\ chain'[k].invalidate = rest[k].invalidate
                /\ chain' # <<>> => chain'[1].stage = "build"
                /\ rest = <<>> => (waiters' = <<>> /\ Len(log'.flushes) = Len(waiters))
                /\ rest # <<>> => waiters' = waiters]_vars

\* once a rebuild has failed, every flushed batch still starts a rebuild of every
\* bundle, the failed one included, that tracks one of its paths
LaterChangesStillRebuild ==
    errors # {} => \A r \in Flushes : Affected(r.batch) \subseteq StartedBundles(r)

\* C8: an error of build() or write() in a rebuild cycle is caught and reported,
\* the bundle stops being marked running, and neither the watcher nor another
\* bundle's rebuilds are terminated: later changes to files tracked by the failed
\* bundle or by other bundles start rebuilds of them.
C8_ErrorNeverStopsRebuilds == ErrorIsContained /\ []LaterChangesStillRebuild

\* after a failed cycle of a bundle, a later change starts a new rebuild of it
C8_Witness ==
    /\ log.done = <<>>
    /\ \E r \in Flushes : \E b \in errors :
          /\ b \in StartedBundles(r)
          /\ \E i \in CyclesOf(b) : chain[i].stage = "build"

C10_InitialBuildsFirst ==
    (nEvents > 0 \/ chain # <<>> \/ waiters # <<>> \/ timeout)
        => \A b \in Bundles : init[b] = "done"

\* a rebuild triggered by a change event is building
C10_Witness ==
    /\ phase = "watching"
    /\ \E i \in DOMAIN chain : chain[i].stage = "build"

\* the bundle of the cycle that ended in the last step is rebuilt with path p
PassedOn(b, p, fl) ==
    \E k \in DOMAIN fl : \E m \in DOMAIN fl[k].started :
        /\ fl[k].started[m].bundle = b
        /\ \E n \in DOMAIN fl[k].started[m].invalidate : fl[k].started[m].invalidate[n] = p

\* C11: once a build() has filled a bundle's files, the change lookup goes by the
\* current files only: a batch with a path of the current files starts a rebuild
\* of the bundle, and a batch with none of them (whatever the files listed
\* before) starts none.
C11_LookupUsesNewFiles ==
    \A r \in Flushes : \A b \in Bundles :
        (files[b].present /\ r.batch # <<>>) =>
            /\ (\E i \in DOMAIN r.batch : Tracks(b, r.batch[i])) => b \in StartedBundles(r)
            /\ (\A i \in DOMAIN r.batch : ~Tracks(b, r.batch[i])) => b \notin StartedBundles(r)

\* C12: when a rebuild cycle of a bundle fails, the batches that arrived while it
\* was running either keep waiting or are looked up at once, and then every
\* path of them that the bundle tracks is passed to a new cycle of the bundle.
C12_FailureKeepsInvalidations ==
    [][(log'.done # <<>> /\ ~log'.done[1].ok) =>
            \/ waiters' = waiters
            \/ /\ waiters' = <<>>
               /\ \A w \in DOMAIN waiters : \A i \in DOMAIN waiters[w] :
                     Tracks(log'.done[1].bundle, waiters[w][i]) =>
                         PassedOn(log'.done[1].bundle, waiters[w][i], log'.flushes)]_vars

\* C18: no scheduling decision is taken while a build is in flight and no build is
\* cancelled: a batch is looked up, and rebuilds are started, only in a step
\* before which every queued cycle has run to completion, and a cycle leaves
\* the chain only by completing.
C18_NoSchedulingMidBuild ==
    [][/\ log'.flushes # <<>> =>
            \/ chain = <<>>
            \/ Len(chain) = 1 /\ log'.done # <<>>
       /\ (timeout /\ ~timeout' /\ chain # <<>>) =>
            (chain' = chain /\ statuses' = statuses /\ waiters' = Append(waiters, collectedFiles))
       /\ Len(chain') < Len(chain) => log'.done # <<>>
       /\ \A i \in DOMAIN chain :
            (InFlight(chain[i]) /\ log'.done = <<>>) =>
                /\ i \in DOMAIN chain'
                /\ InFlight(chain'[i])
                /\ chain'[i].bundle = chain[i].bundle]_vars

\* a batch that waited for a running cycle was looked up when the cycle ended, and
\* started a rebuild
C18_Witness ==
    /\ log.done # <<>>
    /\ \E r \in Flushes : r.batch # <<>> /\ r.started # <<>>

\* C19: in a rebuild cycle write() is invoked only after build() of the cycle has
\* resolved, and once: the cycle leaves write() only by ending; a cycle whose
\* build() failed ends without write().
C19_WriteAfterBuild ==
    [][/\ \A i \in DOMAIN chain' :
            chain'[i].stage = "write" =>
                /\ chain'[i].built
                /\ i \in DOMAIN chain
                /\ chain[i].stage \in {"build", "write"}
                /\ chain[i].bundle = chain'[i].bundle
       /\ \A i \in DOMAIN chain :
            chain[i].stage = "write" =>
                \/ chain' = chain
                \/ /\ log'.done # <<>>
                   /\ log'.done[1].bundle = chain[i].bundle
                   /\ log'.done[1].built
                   /\ Len(chain') = 0 \/ chain'[1].stage # "write"
       /\ (log'.done # <<>> /\ ~log'.done[1].built) =>
            (~log'.done[1].ok /\ chain[1].stage = "build")]_vars

\* build() of a cycle has resolved and its write() is in progress
C19_Witness ==
    \E i \in DOMAIN chain : chain[i].stage = "write" /\ chain[i].built

HasDuplicate(s) == \E m, n \in DOMAIN s : m < n /\ s[m] = s[n]

\* C20 (as claimed): the batch handed to build() holds every path once.
C20_BatchDeduplicated ==
    \A r \in Flushes : \A m \in DOMAIN r.started : ~HasDuplicate(r.started[m].invalidate)

\* C20 (amended): the batch handed to build() is the sequence of the paths of the
\* events of the debounce window, in arrival order, one element per event: a
\* path reported several times appears as many times.
C20_BatchKeepsEveryEvent ==
    [][/\ (nEvents' = nEvents + 1) =>
            \E p \in Paths : collectedFiles' = Append(collectedFiles, p)
       /\ (timeout /\ ~timeout' /\ chain = <<>>) =>
            /\ Len(log'.flushes) = 1
            /\ log'.flushes[1].batch = collectedFiles
       /\ (log'.done # <<>> /\ log'.flushes # <<>>) =>
            /\ Len(log'.flushes) = Len(waiters)
            /\ \A k \in DOMAIN waiters : log'.flushes[k].batch = waiters[k]
       /\ \A k \in DOMAIN log'.flushes : \A m \in DOMAIN log'.flushes[k].started :
            log'.flushes[k].started[m].invalidate = log'.flushes[k].batch]_vars

\* a path was reported twice in one window and build() was called with both
C20_Witness ==
    \E r \in Flushes : \E m \in DOMAIN r.started : HasDuplicate(r.started[m].invalidate)

(***************************************************************************)
(* Properties of the command (SpecCommand)                                 *)
(***************************************************************************)
ResolutionErrors ==
    {"missing files to build", "missing output option", "missing output option for file",
     "missing source file to build", "missing input option for project"}

\* the entries the loop has gone through without an error
Passed == {i \in DOMAIN entries : step \in {"process", "await"} /\ i < index}

BundlersOf(i) == {k \in DOMAIN bundlers : bundlers[k].entry = i /\ bundlers[k].defined}

\* C13: when the action throws a resolution error, no bundler has been created,
\* so no setup()/build()/write() has been started for any entry, the entries
\* before the failing one included.
C13_ResolutionErrorBeforeBundlers ==
    error \in ResolutionErrors => Defined(bundlers) = <<>>

\* C14 (as claimed): a non-empty argument list that resolves to nothing fails
\* with an error, and without arguments the command never fails for lack of
\* targets.
C14_NoArgumentsNeverLackTargets ==
    step # "resolve" =>
        /\ (arguments # <<>> /\ ProjectResolve(workspaces, arguments).files = <<>>)
              => (step = "thrown" /\ error = "missing files to build")
        /\ arguments = <<>> => error # "missing files to build"

\* C14 (amended): a non-empty argument list that resolves to nothing fails with an
\* error; without arguments the entries are all the workspaces, or the root
\* project when the project is not a monorepo, and the command fails for lack
\* of targets exactly when the monorepo has no workspace.
C14_FailsWhenNoEntries ==
    step # "resolve" =>
        /\ (arguments # <<>> /\ ProjectResolve(workspaces, arguments).files = <<>>)
              => (step = "thrown" /\ error = "missing files to build")
        /\ arguments = <<>> =>
              /\ (error = "missing files to build")
                     <=> (workspaces.monorepo /\ workspaces.names = <<>>)
              /\ LET d == DefaultEntries(workspaces)
                 IN  /\ Len(entries) >= Len(d)
                     /\ SubSeq(entries, Len(entries) - Len(d) + 1, Len(entries)) = d
                     /\ workspaces.monorepo => ~Contains(entries, ProjectEntry("root"))

\* no arguments in a monorepo without workspaces: the action has thrown
C14_Witness ==
    /\ arguments = <<>>
    /\ workspaces.monorepo /\ workspaces.names = <<>>
    /\ step = "thrown" /\ error = "missing files to build"

\* C15: a package entry, whatever its position, never passes the loop having
\* produced no bundler, unless an output override was given.
C15_PackageNeverPassesEmpty ==
    \A i \in Passed :
        (entries[i].kind = "project" /\ ~options.output) => BundlersOf(i) # {}

\* C16: in a monorepo an argument equal to a workspace name resolves to that
\* workspace and is not handed to the glob expansion; every other argument, and
\* every argument of a project without workspaces, is glob-expanded.
C16_WorkspaceNameBeforeGlob ==
    (step # "resolve" /\ arguments # <<>>) =>
        \A k \in DOMAIN arguments :
            IF workspaces.monorepo /\ Contains(workspaces.names, arguments[k])
            THEN /\ ~Contains(globbed, arguments[k])
                 /\ Contains(entries, ProjectEntry(arguments[k]))
                 /\ \A g \in DOMAIN Glob(arguments[k]) :
                       ~Contains(entries, Glob(arguments[k])[g])
            ELSE /\ Contains(globbed, arguments[k])
                 /\ \A g \in DOMAIN Glob(arguments[k]) :
                       Contains(entries, Glob(arguments[k])[g])

\* the workspace pkg-a and a file were given: only the file pattern was globbed
C16_Witness ==
    /\ workspaces.names = WorkspaceNames
    /\ arguments = <<"pkg-a", "src/x.js">>
    /\ step = "process"
    /\ globbed = <<"src/x.js">>
    /\ entries[1] = ProjectEntry("pkg-a")

\* C17: with --link the linked dependencies come first in the entries, each after
\* the ones it depends on, and the initial build of a linked dependency has
\* completed before the build of any later entry starts.
C17_LinkedBuildFirst ==
    /\ (options.link /\ index >= 1) =>
          /\ Len(entries) > Cardinality({a \in DOMAIN entries : entries[a].linked})
          /\ \A a, b \in DOMAIN entries :
                /\ (entries[a].linked /\ ~entries[b].linked) => a < b
                /\ entries[b].name \in DependsOn(entries[a].name) => b < a
    /\ \A k1, k2 \in DOMAIN bundlers :
          (/\ bundlers[k1].defined /\ bundlers[k2].defined
           /\ entries[bundlers[k1].entry].linked
           /\ bundlers[k1].entry < bundlers[k2].entry)
              => bundlers[k1].stage = "done"

\* the watcher has an event for path p in this step: a change, a creation or a removal
EventOn(p) ==
    \/ nEvents' = nEvents + 1 /\ collectedFiles' = Append(collectedFiles, p)
    \/ p \in removed' /\ p \notin removed
    \/ p \in removed /\ p \notin removed'

\* C21: for every event the ignore predicate, evaluated against the bundles'
\* files at that time, returns a value, and it returns true (skip) exactly when
\* no bundle lists the path of the event.
C21_IgnoreExactlyUntracked ==
    [][\A p \in Paths : EventOn(p) =>
          /\ IgnoreOutcome(files', removed', p) # "throws"
          /\ (IgnoreOutcome(files', removed', p) = "skip") <=>
                 (\A b \in Bundles : ~(files'[b].present /\ Target(p) \in files'[b].list))]_vars

\* for the events on files that exist the ignore predicate is exact
C21_ExactForExistingFiles ==
    [][\A p \in Paths : (EventOn(p) /\ Target(p) \notin removed') =>
          (IgnoreOutcome(files', removed', p) = "skip") <=>
              (\A b \in Bundles : ~(files'[b].present /\ Target(p) \in files'[b].list))]_vars

C23_EarlyChangeRebuilt ==
    \A p \in Paths :
        (early = p /\ phase = "watching") ~>
            (\E r \in Flushes : \E b \in StartedBundles(r) : Tracks(b, p))

\* the bundle and the invalidated paths of every cycle on the chain, in order
Plan(c) == [j \in DOMAIN c |-> [bundle |-> c[j].bundle, invalidate |-> c[j].invalidate]]

\* the cycles that the flushes (and tail calls) of a step scheduled, in order
RECURSIVE AllStarted(_)
AllStarted(fl) ==
    IF fl = <<>> THEN <<>>
    ELSE [m \in DOMAIN Head(fl).started |->
             [bundle |-> Head(fl).started[m].bundle,
              invalidate |-> Head(fl).started[m].invalidate]] \o AllStarted(Tail(fl))

\* C24: the invalidated paths of a cycle are fixed when the cycle is scheduled:
\* in every step the cycles that stay on the chain keep their bundle and their
\* paths, and every batch that is scheduled in the step, also for a bundle whose
\* earlier cycle is still queued or running, becomes a new cycle at the end.
C24_CyclesNeverExtended ==
    [][\E rem \in {0} \cup DOMAIN chain :
          /\ (rem # 0) <=> (log'.done # <<>>)
          /\ Plan(chain') =
                Plan(IF rem = 0 THEN chain ELSE RemoveAt(chain, rem)) \o AllStarted(log'.flushes)]_vars

\* a batch was scheduled for a bundle whose earlier cycle is still on the chain:
\* the bundle has two cycles, each with its own paths
C24_Witness ==
    \E b \in Bundles :
        /\ Cardinality(CyclesOf(b)) >= 2
        /\ \E r \in Flushes : \E m \in DOMAIN r.started :
              r.started[m].bundle = b /\ r.started[m].wasRunning

\* C25: setup(options) throws when input is missing and when output is missing,
\* both before the base setup is called and with the bundler's options as
\* they were; with both present, an output without extension is replaced by
\* the file named after the input inside it, any other output is kept.
C25_SetupValidatesOptions ==
    [][/\ (setupStage = "call" /\ ~setupArgs.input.given) =>
              setupStage' = "thrown" /\ setupError' = "input"
       /\ (setupStage = "call" /\ setupArgs.input.given /\ ~setupArgs.output.given) =>
              setupStage' = "thrown" /\ setupError' = "output"
       /\ setupStage' = "thrown" =>
              setupStage = "call" /\ bundlerOptions' = bundlerOptions
       /\ setupStage' = "done" =>
              /\ setupArgs.input.given /\ setupArgs.output.given
              /\ bundlerOptions'.set
              /\ bundlerOptions'.output =
                    IF setupArgs.output.extname THEN setupArgs.output.path
                    ELSE setupArgs.output.path \o <<setupArgs.input.basename>>]_vars

\* a bundler holding earlier options was set up with a directory as output
C25_Witness ==
    /\ setupStage = "done"
    /\ setupArgs.output.path = <<"public", "app">>
    /\ setupArgs.input.basename = "site.webmanifest"
    /\ bundlerOptions.output = <<"public", "app", "site.webmanifest">>

\* setup() has thrown for a missing output and left the earlier options in place
C25_WitnessThrown ==
    /\ setupStage = "thrown"
    /\ setupError = "output"
    /\ bundlerOptions = [set |-> TRUE, input |-> "old.json", output |-> <<"old", "old.json">>]

\* the commands that exec() has been called for, and those whose exec() has ended
Executed == {i \in DOMAIN profiles : profiles[i].tasks > 0}

Ended == {i \in DOMAIN profiles : profiles[i].ends > 0}

\* C26: an error of a command propagates out of exec() and start(): exec() ends
\* the profile task of its command exactly once, when the command resolves and
\* when it rejects; start() runs the commands in order, one at a time; it
\* rejects at the first command that rejects and executes none after it.
C26_ErrorPropagates ==
    /\ \A i \in DOMAIN profiles :
          /\ profiles[i].tasks <= 1
          /\ profiles[i].ends <= profiles[i].tasks
          /\ (i \in Executed /\ (i # cliPos \/ cliStage \in {"returned", "thrown"})) =>
                 profiles[i].ends = 1
    /\ \A i \in Executed : \A j \in 1..(i - 1) : j \in Ended /\ ~commands[j].throws
    /\ Cardinality(Executed \ Ended) <= 1
    /\ \A i \in Executed : (commands[i].throws /\ i \in Ended) =>
          cliStage = "thrown" /\ cliPos = i
    /\ cliStage = "thrown" =>
          /\ commands[cliPos].throws
          /\ \A j \in DOMAIN commands : j > cliPos => profiles[j].tasks = 0
    /\ (cliStage = "returned" /\ ~StartPrintsOnly) =>
          \A i \in DOMAIN commands : ~commands[i].throws /\ profiles[i] = [tasks |-> 1, ends |-> 1]

\* the second of three commands has thrown: its profile is ended, start() has
\* rejected and the third command was never executed
C26_Witness ==
    /\ cliStage = "thrown"
    /\ Len(commands) = 3
    /\ cliPos = 2
    /\ profiles = <<[tasks |-> 1, ends |-> 1], [tasks |-> 1, ends |-> 1], NoProfile>>

\* C27: all rebuild cycles are on one chain: a build() or write() call is in
\* flight only for the first cycle of the chain, so for at most one cycle over
\* all bundles; the cycle that ends is the first one, and the others stay in
\* the order in which reBuild scheduled them, new ones behind them.
C27_OneSharedChain ==
    [][/\ \A i \in DOMAIN chain' : InFlight(chain'[i]) => i = 1
       /\ log'.done # <<>> =>
             /\ InFlight(chain[1])
             /\ log'.done[1].bundle = chain[1].bundle
             /\ Len(chain') >= Len(chain) - 1
             /\ \A j \in 1..(Len(chain) - 1) : Plan(chain')[j] = Plan(chain)[j + 1]
       /\ log'.done = <<>> =>
             /\ Len(chain') >= Len(chain)
             /\ \A j \in DOMAIN chain : Plan(chain')[j] = Plan(chain)[j]]_vars

\* three cycles of both bundles are on the chain: the first is writing, the
\* others have not started
C27_Witness ==
    /\ Len(chain) >= 3
    /\ chain[1].stage = "write"
    /\ {chain[i].bundle : i \in DOMAIN chain} = Bundles
    /\ \A i \in 2..Len(chain) : chain[i].stage = "queued"

\* C28: the running flag of a bundle is accurate: whenever a rebuild cycle of the
\* bundle is queued on the chain or in flight, the status of the bundle has
\* running = true.
C28_RunningFlagAccurate ==
    \A b \in Bundles : CyclesOf(b) # {} => statuses[b].running

\* the paths of the batches that the flushes of a step looked up and each bundle matched
Matched(fl, b) ==
    SelectSeq(fl, LAMBDA r : ~r.threw /\ r.batch # <<>> /\
                             \E i \in DOMAIN r.batch : Tracks(b, r.batch[i]))

\* how far a cycle has come
Rank(c) == IF c.stage = "queued" THEN 0 ELSE IF c.stage = "build" THEN 1 ELSE 2

\* C29: every call reBuild(bundle, files) schedules exactly one cycle, whose
\* build() call gets exactly the paths of that batch: in every step the cycles
\* scheduled for a bundle are, one for one and in order, the batches that
\* matched the bundle; no path is left in status.invalidate for a later
\* assignment to overwrite; and a cycle calls build() once, it never goes back.
C29_OneBuildPerBatch ==
    [][/\ \A b \in Bundles : statuses'[b].invalidate = <<>>
       /\ \A b \in Bundles :
             LET m  == Matched(log'.flushes, b)
                 st == SelectSeq(AllStarted(log'.flushes), LAMBDA x : x.bundle = b)
             IN  /\ Len(st) = Len(m)
                 /\ \A k \in DOMAIN st : st[k].invalidate = m[k].batch
       /\ LET k == IF log'.done # <<>> THEN 1 ELSE 0
          IN  \A j \in 1..(Len(chain) - k) :
                  j \in DOMAIN chain' /\ Rank(chain'[j]) >= Rank(chain[j + k])]_vars

\* one batch of two paths matched both bundles: each has a cycle with the whole batch
C29_Witness ==
    \E r \in Flushes :
        /\ Len(r.batch) >= 2
        /\ StartedBundles(r) = Bundles
        /\ \A m \in DOMAIN r.started : r.started[m].invalidate = r.batch
        /\ \A b \in Bundles : \E i \in DOMAIN chain :
              chain[i].bundle = b /\ chain[i].invalidate = r.batch

\* the paths of a list of batches, in order
RECURSIVE Concat(_)
Concat(bs) == IF bs = <<>> THEN <<>> ELSE Head(bs) \o Concat(Tail(bs))

\* the batches that the flushes of a step looked up
Batches(fl) == [k \in DOMAIN fl |-> fl[k].batch]

\* C30: every delivered event is in exactly one batch: in every step the paths
\* looked up in the step, followed by the batches still waiting and by the
\* buffer, are the paths that were waiting and buffered before, followed by the
\* event of the step, each once and in order; and when the timer expires the
\* buffer is emptied in that step, whether or not the flush then has to wait.
C30_EveryEventInOneBatch ==
    [][/\ Concat(Batches(log'.flushes)) \o Concat(waiters') \o collectedFiles' =
             Concat(waiters) \o collectedFiles \o
                 (IF nEvents' = nEvents + 1
                  THEN <<collectedFiles'[Len(collectedFiles')]>> ELSE <<>>)
       /\ (timeout /\ ~timeout') =>
             /\ collectedFiles' = <<>>
             /\ collectedFiles # <<>>
             /\ \/ waiters' = Append(waiters, collectedFiles)
                \/ \E r \in {log'.flushes[k] : k \in DOMAIN log'.flushes} :
                      r.batch = collectedFiles]_vars

\* events arrived while a flush is waiting for a build in flight: they are in the
\* buffer, for a later batch
C30_Witness ==
    /\ Len(waiters) >= 1
    /\ collectedFiles # <<>>
    /\ timeout
    /\ \E i \in DOMAIN chain : InFlight(chain[i])

\* C31: the scheduler quiesces: the call reBuild(bundle) at the end of a cycle
\* finds a status whose invalidate list is defined and empty, so it starts no
\* cycle; the only cycles are those of the batches, and once the chain is
\* empty no flush is waiting and every bundle has running = false and an
\* empty invalidate list.
C31_SchedulerQuiesces ==
    /\ \A r \in Flushes : r.batch = <<>> => r.started = <<>>
    /\ \A r \in Flushes : \A m \in DOMAIN r.started : r.started[m].invalidate = r.batch
    /\ \A b \in Bundles : CyclesOf(b) # {} => statuses[b].defined
    /\ log.done # <<>> =>
          /\ statuses[log.done[1].bundle].defined
          /\ statuses[log.done[1].bundle].invalidate = <<>>
    /\ chain = <<>> =>
          /\ waiters = <<>>
          /\ \A b \in Bundles : ~statuses[b].running /\ statuses[b].invalidate = <<>>

\* both bundles have been rebuilt, the last cycle has just ended and its tail
\* call has left the chain empty
C31_Witness ==
    /\ chain = <<>>
    /\ log.done # <<>>
    /\ log.flushes = <<>>
    /\ \A b \in Bundles : statuses[b].defined /\ ~statuses[b].running

\* C32: a batch with the 'unlink' event of a removed file and a change of an
\* existing tracked file is processed normally: the flush does not fail and
\* every bundle tracking the changed file is rebuilt.
C32_UnlinkInBatchHarmless ==
    \A r \in Flushes : \A b \in Bundles :
        (/\ \E i \in DOMAIN r.batch : Target(r.batch[i]) \in removed
         /\ \E i \in DOMAIN r.batch :
               Target(r.batch[i]) \notin removed /\ Tracks(b, r.batch[i])) =>
            ~r.threw /\ b \in StartedBundles(r)

ScriptTargets(i) ==
    {bundlers[k].target : k \in {k \in BundlersOf(i) :
                                     bundlers[k].target \in {"module", "main", "browser", "output"}}}

ScriptCount(i) ==
    Cardinality({k \in BundlersOf(i) :
                    bundlers[k].target \in {"module", "main", "browser", "output"}})

\* the field chosen for a linked package: module, then main, then browser
LinkedChoice(f) ==
    IF f.module THEN {"module"} ELSE IF f.main THEN {"main"}
    ELSE IF f.browser THEN {"browser"} ELSE {}

DeclaredOutputs(f) ==
    {t \in {"module", "main", "browser"} :
        \/ t = "module" /\ f.module
        \/ t = "main" /\ f.main
        \/ t = "browser" /\ f.browser}

\* C34: a linked package entry with a lib file gets exactly one script bundle,
\* for the first declared of module, main and browser, and never for the
\* output override; a non-linked one without output override gets one script
\* bundle for every declared one of module, main and browser.
C34_LinkedOneBundle ==
    \A i \in Passed :
        (entries[i].kind = "project" /\ Fields(entries[i].name).lib) =>
            /\ entries[i].linked =>
                  /\ ScriptCount(i) = 1
                  /\ ScriptTargets(i) = LinkedChoice(Fields(entries[i].name))
            /\ (~entries[i].linked /\ ~options.output) =>
                  /\ ScriptTargets(i) = DeclaredOutputs(Fields(entries[i].name))
                  /\ ScriptCount(i) = Cardinality(ScriptTargets(i))

\* the same for the linked packages that declare one of the three fields
C34_HoldsWhenFieldDeclared ==
    \A i \in Passed :
        (entries[i].kind = "project" /\ Fields(entries[i].name).lib) =>
            /\ (entries[i].linked /\ DeclaredOutputs(Fields(entries[i].name)) # {}) =>
                  /\ ScriptCount(i) = 1
                  /\ ScriptTargets(i) = LinkedChoice(Fields(entries[i].name))
            /\ (entries[i].linked /\ DeclaredOutputs(Fields(entries[i].name)) = {}) =>
                  ScriptCount(i) = 0
            /\ (~entries[i].linked /\ ~options.output) =>
                  /\ ScriptTargets(i) = DeclaredOutputs(Fields(entries[i].name))
                  /\ ScriptCount(i) = Cardinality(ScriptTargets(i))

\* C35: every element of the bundlers list is a bundler instance: buildEntry
\* contributes no undefined element, whatever the entry.
C35_BundlersAllDefined ==
    \A k \in DOMAIN bundlers : bundlers[k].defined

\* the entries of the packages and of the script files always give a bundler
C35_DefinedForKnownTypes ==
    \A k \in DOMAIN bundlers :
        entries[bundlers[k].entry].kind \in {"project", "file"} => bundlers[k].defined

\* the loop over the final entry list has been entered
ListIsFinal == index >= 1

\* C36: no package is built twice: the final entry list holds every project
\* name at most once, with --recursive and with --link.
C36_NoPackageTwice ==
    ListIsFinal =>
        \A a, b \in DOMAIN entries :
            (a # b /\ entries[a].kind = "project" /\ entries[b].kind = "project") =>
                entries[a].name # entries[b].name

\* without a --link pattern that matches a workspace no name is listed twice,
\* and with --recursive the workspace pkg-b stands before pkg-a, which depends on it
C36_HoldsWithoutLinkedWorkspaces ==
    (ListIsFinal /\ ~options.linkWorkspaces) =>
        /\ \A a, b \in DOMAIN entries :
              (a # b /\ entries[a].kind = "project" /\ entries[b].kind = "project") =>
                  entries[a].name # entries[b].name
        /\ (options.recursive /\ arguments # <<>>) =>
              \A a \in DOMAIN entries :
                  (entries[a].kind = "project" /\ entries[a].name = "pkg-a") =>
                      \E b \in 1..(a - 1) :
                          entries[b].kind = "project" /\ entries[b].name = "pkg-b"

\* the warnings of a report, as pairs of a file and a position, and those of them
\* that have the severity 'error'
ReportedWarnings(report) ==
    UNION {{<<k, m>> : m \in DOMAIN report[k].warnings} : k \in DOMAIN report}

ReportedErrors(report) ==
    {x \in ReportedWarnings(report) : report[x[1]].warnings[x[2]] = "error"}

DefaultOutput(o) ==
    IF o.output # <<>> THEN o.output \o <<"manifest.json">> ELSE o.root \o <<"manifest.json">>

\* C38: the manifest command run without --manifest completes: setup() does not
\* throw, the bundler gets the default output, and the manifest is built from
\* the defaults.
C38_NoInputSucceeds ==
    ~actionOptions.manifest.given =>
        /\ setupStage # "thrown"
        /\ setupStage = "built" =>
              /\ manifestRes = "defaults"
              /\ bundlerOptions.output = DefaultOutput(actionOptions)

\* with --manifest naming a file that does not exist the command completes with
\* a manifest built from the defaults
C38_MissingFileBuildsDefaults ==
    (actionOptions.manifest.given /\ ~actionOptions.manifest.exists) =>
        /\ setupStage # "thrown"
        /\ setupStage = "built" => manifestRes = "defaults" /\ bundlerOptions.set

====
